---- MODULE Spec2Model ----
(***************************************************************************)
(* Model of package parallel (eraclitux/goparallel): RunBlocking, the      *)
(* producer goroutine populateQueue, the spawner goroutine                 *)
(* parallelizeWorkers, the worker goroutines evaluateQueue, and the        *)
(* delivery of os.Interrupt to the channels registered by signal.Notify.   *)
(*                                                                         *)
(* Every invocation of RunBlocking has its own locals (jobsQueue,          *)
(* doneChan, prematureEnd, totalDone, err) and its own goroutines, so the  *)
(* per-invocation state is a function of the invocation number r.          *)
(***************************************************************************)
EXTENDS Integers, Sequences, FiniteSets

\* Bounds of the model.
MaxJobs == 2          \* longest jobs slice handed to RunBlocking
MaxWorkers == 2       \* largest runtime.NumCPU() considered
MaxRuns == 2          \* number of RunBlocking invocations
MaxInterrupts == 1    \* number of SIGINTs delivered to the process
MaxOverlapWorkers == 1 \* largest runtime.NumCPU() with overlapping invocations

Runs == 1..MaxRuns
Workers == 1..MaxWorkers
Tasks == 1..MaxJobs
Bindings == {"pointer", "value"}

\* errors.New("SIGINT received, ...") and the zero value of the error result.
ErrTasksNotCompleted == "ErrTasksNotCompleted"
nil == "nil"

VARIABLES
    workersNumber,   \* package variable workersNumber = runtime.NumCPU()
    interrupts,      \* SIGINTs delivered to the process so far
    cpc,             \* [r] RunBlocking: "idle", "loop", "returned", "over";
                     \*     "crashed" once the process has ended
    jobs,            \* [r] len(jobs); the tasks are 1..jobs[r]
    binding,         \* [r] how the Taskers were built: &dummy{} or dummyNop{}
    err,             \* [r] named result err of RunBlocking
    totalDone,       \* [r] local totalDone of RunBlocking
    ppc,             \* [r] position of populateQueue
    pidx,            \* [r] index of the range loop over jobs (1-based)
    notified,        \* [r] signal.Notify(signalChan, os.Interrupt) was called
    signalChan,      \* [r] number of signals buffered in signalChan (cap 1)
    jobsQueue,       \* [r] content of the buffered channel jobsQueue
    closed,          \* [r] number of close(jobsQueue) calls executed
    doneChan,        \* [r] number of markers buffered in doneChan
    spawnIdx,        \* [r] loop variable i of parallelizeWorkers
    wpc,             \* [r][w] position of evaluateQueue in worker w
    wjob,            \* [r][w] the task j worker w holds (0: none)
    executed,        \* [r][t] number of calls of Execute on task t
    done,            \* [r][t] field done of the caller's task t
    sent,            \* [r] tasks sent to jobsQueue, in order
    recvd,           \* [r] tasks received from jobsQueue, in order
    emitted,         \* [r] number of markers sent on prematureEnd
    sentAtInterrupt, \* [r] {len(sent)} at the first SIGINT during the run
    sentAtCancel,    \* [r] {len(sent)} when populateQueue read signalChan
    sentAtPending    \* [r] {len(sent)} when signalChan first got a SIGINT

globalVars == <<workersNumber, interrupts>>
coordVars == <<cpc, jobs, binding, err, totalDone>>
prodVars == <<ppc, pidx>>
sigVars == <<notified, signalChan>>
chanVars == <<jobsQueue, closed, doneChan>>
workVars == <<spawnIdx, wpc, wjob>>
taskVars == <<executed, done>>
histVars == <<sent, recvd, emitted, sentAtInterrupt, sentAtCancel,
              sentAtPending>>
vars == <<globalVars, coordVars, prodVars, sigVars, chanVars, workVars,
          taskVars, histVars>>

NoWorker == [w \in Workers |-> "unspawned"]
NoJob == [w \in Workers |-> 0]
NoCalls == [t \in Tasks |-> 0]
NotDone == [t \in Tasks |-> FALSE]

TypeOK ==
    /\ workersNumber \in 1..MaxWorkers
    /\ interrupts \in 0..MaxInterrupts
    /\ cpc \in [Runs -> {"idle", "loop", "returned", "over", "crashed"}]
    /\ jobs \in [Runs -> 0..MaxJobs]
    /\ binding \in [Runs -> Bindings]
    /\ err \in [Runs -> {nil, ErrTasksNotCompleted}]
    /\ totalDone \in [Runs -> Nat]
    /\ ppc \in [Runs -> {"none", "notify", "poll", "send", "cancelSend",
                         "cancelClose", "close", "done", "crashed"}]
    /\ pidx \in [Runs -> Nat]
    /\ notified \in [Runs -> BOOLEAN]
    /\ signalChan \in [Runs -> 0..1]
    /\ jobsQueue \in [Runs -> Seq(Tasks)]
    /\ closed \in [Runs -> Nat]
    /\ doneChan \in [Runs -> Nat]
    /\ spawnIdx \in [Runs -> Nat]
    /\ wpc \in [Runs -> [Workers -> {"unspawned", "recv", "exec", "signal",
                                     "done", "faulted", "crashed"}]]
    /\ wjob \in [Runs -> [Workers -> 0..MaxJobs]]
    /\ executed \in [Runs -> [Tasks -> Nat]]
    /\ done \in [Runs -> [Tasks -> BOOLEAN]]
    /\ sent \in [Runs -> Seq(Tasks)]
    /\ recvd \in [Runs -> Seq(Tasks)]
    /\ emitted \in [Runs -> Nat]
    /\ sentAtInterrupt \in [Runs -> SUBSET (0..MaxJobs)]
    /\ sentAtCancel \in [Runs -> SUBSET (0..MaxJobs)]
    /\ sentAtPending \in [Runs -> SUBSET (0..MaxJobs)]

\* The process after package initialisation: workersNumber is set once from
\* runtime.NumCPU() (at least 1), and RunBlocking has not been called.
Init ==
    /\ workersNumber \in 1..MaxWorkers
    /\ interrupts = 0
    /\ cpc = [r \in Runs |-> "idle"]
    /\ jobs = [r \in Runs |-> 0]
    /\ binding = [r \in Runs |-> "pointer"]
    /\ err = [r \in Runs |-> nil]
    /\ totalDone = [r \in Runs |-> 0]
    /\ ppc = [r \in Runs |-> "none"]
    /\ pidx = [r \in Runs |-> 0]
    /\ notified = [r \in Runs |-> FALSE]
    /\ signalChan = [r \in Runs |-> 0]
    /\ jobsQueue = [r \in Runs |-> <<>>]
    /\ closed = [r \in Runs |-> 0]
    /\ doneChan = [r \in Runs |-> 0]
    /\ spawnIdx = [r \in Runs |-> 0]
    /\ wpc = [r \in Runs |-> NoWorker]
    /\ wjob = [r \in Runs |-> NoJob]
    /\ executed = [r \in Runs |-> NoCalls]
    /\ done = [r \in Runs |-> NotDone]
    /\ sent = [r \in Runs |-> <<>>]
    /\ recvd = [r \in Runs |-> <<>>]
    /\ emitted = [r \in Runs |-> 0]
    /\ sentAtInterrupt = [r \in Runs |-> {}]
    /\ sentAtCancel = [r \in Runs |-> {}]
    /\ sentAtPending = [r \in Runs |-> {}]

\* Variant of Execute: the value receiver writes through to the caller's task.
ExecuteShared(b, d) == TRUE

\* (d *dummy) Execute() sets done on the caller's task; (d dummyNop) Execute()
\* sets done on the copy its value receiver got, which is then dropped.
\* Execute(b, d) is the caller's field done after the call.
Execute(b, d) == IF b = "pointer" THEN TRUE ELSE d

\* Every goroutine started by invocation q has ended.
Quiesced(q) ==
    /\ ppc[q] = "done"
    /\ spawnIdx[q] = workersNumber
    /\ \A w \in 1..workersNumber : wpc[q][w] = "done"

\* The locals of a RunBlocking that has returned, and whose goroutines have
\* all ended, are unreachable once the caller goes on: f with the entry of
\* invocation r set to fresh, and the entry of such a predecessor to blank.
Frame(f, r, fresh, blank) ==
    [q \in Runs |-> IF q = r THEN fresh
                    ELSE IF q = r - 1 /\ Quiesced(q) THEN blank
                    ELSE f[q]]

\* RunBlocking up to its for loop: fresh prematureEnd, jobsQueue, doneChan and
\* totalDone, then go populateQueue and go parallelizeWorkers.  Invocation r
\* starts after invocation r-1 has returned ("over": its caller went on).
Call(r) ==
    /\ cpc[r] = "idle"
    /\ r > 1 => cpc[r - 1] = "returned"
    /\ \E n \in 0..MaxJobs, b \in Bindings :
          /\ jobs' = Frame(jobs, r, n, 0)
          /\ binding' = Frame(binding, r, b, "pointer")
    /\ cpc' = [q \in Runs |-> IF q = r THEN "loop"
                              ELSE IF q = r - 1 THEN "over" ELSE cpc[q]]
    /\ err' = [err EXCEPT ![r] = nil]
    /\ totalDone' = Frame(totalDone, r, 0, 0)
    /\ jobsQueue' = Frame(jobsQueue, r, <<>>, <<>>)
    /\ closed' = Frame(closed, r, 0, 0)
    /\ doneChan' = Frame(doneChan, r, 0, 0)
    /\ ppc' = Frame(ppc, r, "notify", "none")
    /\ pidx' = Frame(pidx, r, 0, 0)
    /\ spawnIdx' = Frame(spawnIdx, r, 0, 0)
    /\ wpc' = Frame(wpc, r, NoWorker, NoWorker)
    /\ wjob' = Frame(wjob, r, NoJob, NoJob)
    /\ executed' = Frame(executed, r, NoCalls, NoCalls)
    /\ done' = Frame(done, r, NotDone, NotDone)
    /\ sent' = Frame(sent, r, <<>>, <<>>)
    /\ recvd' = Frame(recvd, r, <<>>, <<>>)
    /\ emitted' = Frame(emitted, r, 0, 0)
    /\ sentAtInterrupt' = Frame(sentAtInterrupt, r, {}, {})
    /\ sentAtCancel' = Frame(sentAtCancel, r, {}, {})
    /\ sentAtPending' = Frame(sentAtPending, r, {}, {})
    /\ UNCHANGED <<globalVars, sigVars>>

\* Variant of ProducerNotify: the select is entered before the emptiness of
\* jobs is tested.
ProducerNotifyThenPoll(r) ==
    /\ ppc[r] = "notify"
    /\ notified' = [notified EXCEPT ![r] = TRUE]
    /\ signalChan' = [signalChan EXCEPT ![r] = 0]
    /\ pidx' = [pidx EXCEPT ![r] = 1]
    /\ ppc' = [ppc EXCEPT ![r] = "poll"]
    /\ UNCHANGED <<globalVars, coordVars, chanVars, workVars, taskVars,
                   histVars>>

\* Variant of ProducerNotify: signalChan is made once for the process, so a
\* signal buffered during the previous invocation is still in it.
ProducerNotifyShared(r) ==
    /\ ppc[r] = "notify"
    /\ notified' = [notified EXCEPT ![r] = TRUE]
    /\ signalChan' = [signalChan EXCEPT
                         ![r] = IF r > 1 THEN signalChan[r - 1] ELSE 0]
    /\ pidx' = [pidx EXCEPT ![r] = 1]
    /\ ppc' = [ppc EXCEPT ![r] = IF jobs[r] = 0 THEN "close" ELSE "poll"]
    /\ UNCHANGED <<globalVars, coordVars, chanVars, workVars, taskVars,
                   histVars>>

\* populateQueue: make(signalChan, 1), signal.Notify, then the head of the
\* range loop (an empty jobs slice goes straight to the final close).
ProducerNotify(r) ==
    /\ ppc[r] = "notify"
    /\ notified' = [notified EXCEPT ![r] = TRUE]
    /\ signalChan' = [signalChan EXCEPT ![r] = 0]
    /\ pidx' = [pidx EXCEPT ![r] = 1]
    /\ ppc' = [ppc EXCEPT ![r] = IF jobs[r] = 0 THEN "close" ELSE "poll"]
    /\ UNCHANGED <<globalVars, coordVars, chanVars, workVars, taskVars,
                   histVars>>

\* Variant of ProducerPoll: on the cancellation path jobsQueue is closed
\* before the marker is sent on prematureEnd.
ProducerPollClosesFirst(r) ==
    /\ ppc[r] = "poll"
    /\ IF signalChan[r] > 0
          THEN /\ signalChan' = [signalChan EXCEPT ![r] = 0]
               /\ closed' = [closed EXCEPT ![r] = @ + 1]
               /\ ppc' = [ppc EXCEPT ![r] = "cancelSend"]
               /\ sentAtCancel' = [sentAtCancel EXCEPT ![r] = {Len(sent[r])}]
          ELSE /\ ppc' = [ppc EXCEPT ![r] = "send"]
               /\ UNCHANGED <<signalChan, closed, sentAtCancel>>
    /\ UNCHANGED <<globalVars, coordVars, pidx, notified, jobsQueue, doneChan,
                   workVars, taskVars, sent, recvd, emitted, sentAtInterrupt,
                   sentAtPending>>

\* The select of populateQueue: case <-signalChan when a signal is buffered,
\* default otherwise.
ProducerPoll(r) ==
    /\ ppc[r] = "poll"
    /\ IF signalChan[r] > 0
          THEN /\ signalChan' = [signalChan EXCEPT ![r] = 0]
               /\ ppc' = [ppc EXCEPT ![r] = "cancelSend"]
               /\ sentAtCancel' = [sentAtCancel EXCEPT ![r] = {Len(sent[r])}]
          ELSE /\ ppc' = [ppc EXCEPT ![r] = "send"]
               /\ UNCHANGED <<signalChan, sentAtCancel>>
    /\ UNCHANGED <<globalVars, coordVars, pidx, notified, chanVars, workVars,
                   taskVars, sent, recvd, emitted, sentAtInterrupt,
                   sentAtPending>>

\* Variant of ProducerSend: signalChan is read once more after the last
\* task was sent.
ProducerSendThenPoll(r) ==
    /\ ppc[r] = "send"
    /\ Len(jobsQueue[r]) < workersNumber
    /\ jobsQueue' = [jobsQueue EXCEPT ![r] = Append(@, pidx[r])]
    /\ sent' = [sent EXCEPT ![r] = Append(@, pidx[r])]
    /\ pidx' = [pidx EXCEPT ![r] = @ + 1]
    /\ IF pidx[r] + 1 <= jobs[r]
          THEN /\ ppc' = [ppc EXCEPT ![r] = "poll"]
               /\ UNCHANGED <<signalChan, sentAtCancel>>
          ELSE IF signalChan[r] > 0
          THEN /\ ppc' = [ppc EXCEPT ![r] = "cancelSend"]
               /\ signalChan' = [signalChan EXCEPT ![r] = 0]
               /\ sentAtCancel' = [sentAtCancel EXCEPT
                                      ![r] = {Len(sent[r]) + 1}]
          ELSE /\ ppc' = [ppc EXCEPT ![r] = "close"]
               /\ UNCHANGED <<signalChan, sentAtCancel>>
    /\ UNCHANGED <<globalVars, coordVars, notified, closed, doneChan,
                   workVars, taskVars, recvd, emitted, sentAtInterrupt,
                   sentAtPending>>

\* Variant of ProducerSend: the jobs slice is walked from its last element.
ProducerSendReversed(r) ==
    /\ ppc[r] = "send"
    /\ Len(jobsQueue[r]) < workersNumber
    /\ jobsQueue' = [jobsQueue EXCEPT
                        ![r] = Append(@, jobs[r] - pidx[r] + 1)]
    /\ sent' = [sent EXCEPT ![r] = Append(@, jobs[r] - pidx[r] + 1)]
    /\ pidx' = [pidx EXCEPT ![r] = @ + 1]
    /\ ppc' = [ppc EXCEPT ![r] = IF pidx[r] + 1 > jobs[r] THEN "close"
                                                          ELSE "poll"]
    /\ UNCHANGED <<globalVars, coordVars, sigVars, closed, doneChan, workVars,
                   taskVars, recvd, emitted, sentAtInterrupt,
                   sentAtPending, sentAtCancel>>

\* Variant of ProducerSend: jobsQueue has room for every task, the send
\* never blocks.
ProducerSendUnbounded(r) ==
    /\ ppc[r] = "send"
    /\ jobsQueue' = [jobsQueue EXCEPT ![r] = Append(@, pidx[r])]
    /\ sent' = [sent EXCEPT ![r] = Append(@, pidx[r])]
    /\ pidx' = [pidx EXCEPT ![r] = @ + 1]
    /\ ppc' = [ppc EXCEPT ![r] = IF pidx[r] + 1 > jobs[r] THEN "close"
                                                          ELSE "poll"]
    /\ UNCHANGED <<globalVars, coordVars, sigVars, closed, doneChan, workVars,
                   taskVars, recvd, emitted, sentAtInterrupt,
                   sentAtPending, sentAtCancel>>

\* Variant of ProducerSend: the select is outside the range loop, so a send
\* is followed by the next send without a read of signalChan.
ProducerSendNoRepoll(r) ==
    /\ ppc[r] = "send"
    /\ Len(jobsQueue[r]) < workersNumber
    /\ jobsQueue' = [jobsQueue EXCEPT ![r] = Append(@, pidx[r])]
    /\ sent' = [sent EXCEPT ![r] = Append(@, pidx[r])]
    /\ pidx' = [pidx EXCEPT ![r] = @ + 1]
    /\ ppc' = [ppc EXCEPT ![r] = IF pidx[r] + 1 > jobs[r] THEN "close"
                                                          ELSE "send"]
    /\ UNCHANGED <<globalVars, coordVars, sigVars, closed, doneChan, workVars,
                   taskVars, recvd, emitted, sentAtInterrupt, sentAtPending,
                   sentAtCancel>>

\* default: jobsQueue <- t, which blocks while the buffer holds
\* workersNumber tasks; then the next iteration or the final close.
ProducerSend(r) ==
    /\ ppc[r] = "send"
    /\ Len(jobsQueue[r]) < workersNumber
    /\ jobsQueue' = [jobsQueue EXCEPT ![r] = Append(@, pidx[r])]
    /\ sent' = [sent EXCEPT ![r] = Append(@, pidx[r])]
    /\ pidx' = [pidx EXCEPT ![r] = @ + 1]
    /\ ppc' = [ppc EXCEPT ![r] = IF pidx[r] + 1 > jobs[r] THEN "close"
                                                          ELSE "poll"]
    /\ UNCHANGED <<globalVars, coordVars, sigVars, closed, doneChan, workVars,
                   taskVars, recvd, emitted, sentAtInterrupt,
                   sentAtPending, sentAtCancel>>

\* Variant of ProducerCancelClose: populateQueue returns on the cancellation
\* path without closing jobsQueue.
ProducerCancelNoClose(r) ==
    /\ ppc[r] = "cancelClose"
    /\ ppc' = [ppc EXCEPT ![r] = "done"]
    /\ UNCHANGED <<globalVars, coordVars, pidx, sigVars, chanVars, workVars,
                   taskVars, histVars>>

\* Variant of ProducerCancelClose: after close(jobsQueue) the loop is left
\* instead of the function, so the close after the loop runs too.
ProducerCancelFallsThrough(r) ==
    /\ ppc[r] = "cancelClose"
    /\ closed' = [closed EXCEPT ![r] = @ + 1]
    /\ ppc' = [ppc EXCEPT ![r] = "close"]
    /\ UNCHANGED <<globalVars, coordVars, pidx, sigVars, jobsQueue, doneChan,
                   workVars, taskVars, histVars>>

\* Variant of ProducerCancelClose: the tasks still in jobsQueue are dropped
\* when it is closed on the cancellation path.
ProducerCancelDiscards(r) ==
    /\ ppc[r] = "cancelClose"
    /\ closed' = [closed EXCEPT ![r] = @ + 1]
    /\ jobsQueue' = [jobsQueue EXCEPT ![r] = <<>>]
    /\ ppc' = [ppc EXCEPT ![r] = "done"]
    /\ UNCHANGED <<globalVars, coordVars, pidx, sigVars, doneChan, workVars,
                   taskVars, histVars>>

\* close(jobsQueue); return on the cancellation path.
ProducerCancelClose(r) ==
    /\ ppc[r] = "cancelClose"
    /\ closed' = [closed EXCEPT ![r] = @ + 1]
    /\ ppc' = [ppc EXCEPT ![r] = "done"]
    /\ UNCHANGED <<globalVars, coordVars, pidx, sigVars, jobsQueue, doneChan,
                   workVars, taskVars, histVars>>

\* Variant of ProducerClose: signalChan is read once more after the loop, and
\* an interrupt found there takes the cancellation path.
ProducerCloseChecksSignal(r) ==
    /\ ppc[r] = "close"
    /\ IF signalChan[r] > 0
          THEN /\ signalChan' = [signalChan EXCEPT ![r] = 0]
               /\ sentAtCancel' = [sentAtCancel EXCEPT ![r] = {Len(sent[r])}]
               /\ ppc' = [ppc EXCEPT ![r] = "cancelSend"]
               /\ UNCHANGED closed
          ELSE /\ closed' = [closed EXCEPT ![r] = @ + 1]
               /\ ppc' = [ppc EXCEPT ![r] = "done"]
               /\ UNCHANGED <<signalChan, sentAtCancel>>
    /\ UNCHANGED <<globalVars, coordVars, pidx, notified, jobsQueue, doneChan,
                   workVars, taskVars, sent, recvd, emitted, sentAtInterrupt,
                   sentAtPending>>

\* close(jobsQueue) after the range loop.
ProducerClose(r) ==
    /\ ppc[r] = "close"
    /\ closed' = [closed EXCEPT ![r] = @ + 1]
    /\ ppc' = [ppc EXCEPT ![r] = "done"]
    /\ UNCHANGED <<globalVars, coordVars, pidx, sigVars, jobsQueue, doneChan,
                   workVars, taskVars, histVars>>

\* One iteration of parallelizeWorkers: go evaluateQueue(jobsQueue, doneChan).
SpawnWorker(r) ==
    /\ cpc[r] \in {"loop", "returned"}
    /\ spawnIdx[r] < workersNumber
    /\ spawnIdx' = [spawnIdx EXCEPT ![r] = @ + 1]
    /\ wpc' = [wpc EXCEPT ![r][spawnIdx[r] + 1] = "recv"]
    /\ wjob' = [wjob EXCEPT ![r][spawnIdx[r] + 1] = 0]
    /\ UNCHANGED <<globalVars, coordVars, prodVars, sigVars, chanVars,
                   taskVars, histVars>>

\* Variant of WorkerRecv: the task is read from jobsQueue and left in it.
WorkerRecvKeeps(r, w) ==
    /\ wpc[r][w] = "recv"
    /\ jobsQueue[r] # <<>>
    /\ wjob' = [wjob EXCEPT ![r][w] = Head(jobsQueue[r])]
    /\ recvd' = [recvd EXCEPT ![r] = Append(@, Head(jobsQueue[r]))]
    /\ wpc' = [wpc EXCEPT ![r][w] = "exec"]
    /\ UNCHANGED <<globalVars, coordVars, prodVars, sigVars, chanVars,
                   spawnIdx, taskVars, sent, emitted, sentAtInterrupt,
                   sentAtPending,
                   sentAtCancel>>

\* for j := range jobsQueue: a task is received.
WorkerRecv(r, w) ==
    /\ wpc[r][w] = "recv"
    /\ jobsQueue[r] # <<>>
    /\ wjob' = [wjob EXCEPT ![r][w] = Head(jobsQueue[r])]
    /\ recvd' = [recvd EXCEPT ![r] = Append(@, Head(jobsQueue[r]))]
    /\ jobsQueue' = [jobsQueue EXCEPT ![r] = Tail(@)]
    /\ wpc' = [wpc EXCEPT ![r][w] = "exec"]
    /\ UNCHANGED <<globalVars, coordVars, prodVars, sigVars, closed, doneChan,
                   spawnIdx, taskVars, sent, emitted, sentAtInterrupt,
                   sentAtPending,
                   sentAtCancel>>

\* Variant of WorkerExecute: the send on doneChan is inside the range loop,
\* so a marker is sent after every task.
WorkerExecuteSignals(r, w) ==
    /\ wpc[r][w] = "exec"
    /\ executed' = [executed EXCEPT ![r][wjob[r][w]] = @ + 1]
    /\ done' = [done EXCEPT ![r][wjob[r][w]] = Execute(binding[r], @)]
    /\ wjob' = [wjob EXCEPT ![r][w] = 0]
    /\ wpc' = [wpc EXCEPT ![r][w] = "recv"]
    /\ doneChan' = [doneChan EXCEPT ![r] = @ + 1]
    /\ UNCHANGED <<globalVars, coordVars, prodVars, sigVars, jobsQueue, closed,
                   spawnIdx, histVars>>

\* j.Execute(), then back to the head of the range loop.
WorkerExecute(r, w) ==
    /\ wpc[r][w] = "exec"
    /\ executed' = [executed EXCEPT ![r][wjob[r][w]] = @ + 1]
    /\ done' = [done EXCEPT ![r][wjob[r][w]] = Execute(binding[r], @)]
    /\ wjob' = [wjob EXCEPT ![r][w] = 0]
    /\ wpc' = [wpc EXCEPT ![r][w] = "recv"]
    /\ UNCHANGED <<globalVars, coordVars, prodVars, sigVars, chanVars,
                   spawnIdx, histVars>>

\* Variant of WorkerObserveClosed: the worker leaves its loop as soon as
\* jobsQueue is closed, whatever it still holds.
WorkerLeavesOnClose(r, w) ==
    /\ wpc[r][w] = "recv"
    /\ closed[r] > 0
    /\ wpc' = [wpc EXCEPT ![r][w] = "signal"]
    /\ UNCHANGED <<globalVars, coordVars, prodVars, sigVars, chanVars,
                   spawnIdx, wjob, taskVars, histVars>>

\* The range loop ends: jobsQueue is closed and empty.
WorkerObserveClosed(r, w) ==
    /\ wpc[r][w] = "recv"
    /\ jobsQueue[r] = <<>>
    /\ closed[r] > 0
    /\ wpc' = [wpc EXCEPT ![r][w] = "signal"]
    /\ UNCHANGED <<globalVars, coordVars, prodVars, sigVars, chanVars,
                   spawnIdx, wjob, taskVars, histVars>>

\* Variant of WorkerSignal: RunBlocking assigns the package variable doneChan
\* instead of declaring a local, so the workers of every invocation send on
\* the channel made last.
WorkerSignalShared(r, w) ==
    /\ wpc[r][w] = "signal"
    /\ \E q \in Runs :
          /\ cpc[q] # "idle"
          /\ \A p \in Runs : p > q => cpc[p] = "idle"
          /\ doneChan[q] < workersNumber
          /\ doneChan' = [doneChan EXCEPT ![q] = @ + 1]
    /\ wpc' = [wpc EXCEPT ![r][w] = "done"]
    /\ UNCHANGED <<globalVars, coordVars, prodVars, sigVars, jobsQueue, closed,
                   spawnIdx, wjob, taskVars, histVars>>

\* doneChan <- struct{}{}, which blocks while the buffer holds workersNumber
\* markers; then the goroutine ends.
WorkerSignal(r, w) ==
    /\ wpc[r][w] = "signal"
    /\ doneChan[r] < workersNumber
    /\ doneChan' = [doneChan EXCEPT ![r] = @ + 1]
    /\ wpc' = [wpc EXCEPT ![r][w] = "done"]
    /\ UNCHANGED <<globalVars, coordVars, prodVars, sigVars, jobsQueue, closed,
                   spawnIdx, wjob, taskVars, histVars>>

\* if totalDone == workersNumber { break } followed by return.
AfterSelect(total) == IF total = workersNumber THEN "returned" ELSE "loop"

\* case <-doneChan: totalDone++, then the test that ends the loop.
CoordRecvDone(r) ==
    /\ cpc[r] = "loop"
    /\ doneChan[r] > 0
    /\ doneChan' = [doneChan EXCEPT ![r] = @ - 1]
    /\ totalDone' = [totalDone EXCEPT ![r] = @ + 1]
    /\ cpc' = [cpc EXCEPT ![r] = AfterSelect(totalDone[r] + 1)]
    /\ UNCHANGED <<globalVars, jobs, binding, err, prodVars, sigVars,
                   jobsQueue, closed, workVars, taskVars, histVars>>

\* Variant of CoordRecvPremature: the loop of RunBlocking ends when the
\* marker of prematureEnd is received.
CoordBreaksOnPremature(r) ==
    /\ cpc[r] = "loop"
    /\ ppc[r] = "cancelSend"
    /\ ppc' = [ppc EXCEPT ![r] = "cancelClose"]
    /\ emitted' = [emitted EXCEPT ![r] = @ + 1]
    /\ err' = [err EXCEPT ![r] = ErrTasksNotCompleted]
    /\ cpc' = [cpc EXCEPT ![r] = "returned"]
    /\ UNCHANGED <<globalVars, jobs, binding, totalDone, pidx, sigVars,
                   chanVars, workVars, taskVars, sent, recvd, sentAtInterrupt,
                   sentAtPending,
                   sentAtCancel>>

\* Variant of CoordRecvPremature: the marker is received and err is left nil.
CoordKeepsNil(r) ==
    /\ cpc[r] = "loop"
    /\ ppc[r] = "cancelSend"
    /\ ppc' = [ppc EXCEPT ![r] = "cancelClose"]
    /\ emitted' = [emitted EXCEPT ![r] = @ + 1]
    /\ cpc' = [cpc EXCEPT ![r] = AfterSelect(totalDone[r])]
    /\ UNCHANGED <<globalVars, jobs, binding, err, totalDone, pidx, sigVars,
                   chanVars, workVars, taskVars, sent, recvd, sentAtInterrupt,
                   sentAtPending,
                   sentAtCancel>>

\* Variant of CoordRecvPremature: prematureEnd has a buffer, the send of
\* populateQueue completes alone and RunBlocking does not read the marker.
PrematureEndBuffered(r) ==
    /\ cpc[r] = "loop"
    /\ ppc[r] = "cancelSend"
    /\ ppc' = [ppc EXCEPT ![r] = "cancelClose"]
    /\ emitted' = [emitted EXCEPT ![r] = @ + 1]
    /\ UNCHANGED <<globalVars, coordVars, pidx, sigVars, chanVars, workVars,
                   taskVars, sent, recvd, sentAtInterrupt,
                   sentAtPending, sentAtCancel>>

\* prematureEnd is unbuffered: prematureEnd <- struct{}{} of populateQueue and
\* case <-prematureEnd of RunBlocking happen together; err is set, then the
\* test that ends the loop.
CoordRecvPremature(r) ==
    /\ cpc[r] = "loop"
    /\ ppc[r] = "cancelSend"
    /\ ppc' = [ppc EXCEPT ![r] = "cancelClose"]
    /\ emitted' = [emitted EXCEPT ![r] = @ + 1]
    /\ err' = [err EXCEPT ![r] = ErrTasksNotCompleted]
    /\ cpc' = [cpc EXCEPT ![r] = AfterSelect(totalDone[r])]
    /\ UNCHANGED <<globalVars, jobs, binding, totalDone, pidx, sigVars,
                   chanVars, workVars, taskVars, sent, recvd, sentAtInterrupt,
                   sentAtPending,
                   sentAtCancel>>

\* A SIGINT reaches the process.  The signal package sends it, without
\* blocking, to every channel registered by signal.Notify (none is ever
\* unregistered); with no channel registered the process is terminated, which
\* ends every run, so that case has no step here.
Interrupt ==
    /\ interrupts < MaxInterrupts
    /\ \E r \in Runs : notified[r]
    /\ interrupts' = interrupts + 1
    /\ signalChan' = [r \in Runs |-> IF notified[r] THEN 1 ELSE signalChan[r]]
    /\ sentAtInterrupt' =
          [r \in Runs |-> IF cpc[r] = "loop" /\ sentAtInterrupt[r] = {}
                             THEN {Len(sent[r])}
                             ELSE sentAtInterrupt[r]]
    /\ sentAtPending' =
          [r \in Runs |-> IF notified[r] /\ cpc[r] = "loop"
                                /\ sentAtPending[r] = {}
                             THEN {Len(sent[r])}
                             ELSE sentAtPending[r]]
    /\ UNCHANGED <<workersNumber, coordVars, prodVars, notified, chanVars,
                   workVars, taskVars, sent, recvd, emitted, sentAtCancel>>

Next ==
    \/ \E r \in Runs : Call(r)
    \/ \E r \in Runs : ProducerNotify(r)
    \/ \E r \in Runs : ProducerPoll(r)
    \/ \E r \in Runs : ProducerSend(r)
    \/ \E r \in Runs : ProducerCancelClose(r)
    \/ \E r \in Runs : ProducerClose(r)
    \/ \E r \in Runs : SpawnWorker(r)
    \/ \E r \in Runs, w \in Workers : WorkerRecv(r, w)
    \/ \E r \in Runs, w \in Workers : WorkerExecute(r, w)
    \/ \E r \in Runs, w \in Workers : WorkerObserveClosed(r, w)
    \/ \E r \in Runs, w \in Workers : WorkerSignal(r, w)
    \/ \E r \in Runs : CoordRecvDone(r)
    \/ \E r \in Runs : CoordRecvPremature(r)
    \/ Interrupt

Spec == Init /\ [][Next]_vars
\* The steps of the goroutines of invocation r.
RunStep(r) ==
    \/ ProducerNotify(r)
    \/ ProducerPoll(r)
    \/ ProducerSend(r)
    \/ ProducerCancelClose(r)
    \/ ProducerClose(r)
    \/ SpawnWorker(r)
    \/ \E w \in Workers : WorkerRecv(r, w)
    \/ \E w \in Workers : WorkerExecute(r, w)
    \/ \E w \in Workers : WorkerObserveClosed(r, w)
    \/ \E w \in Workers : WorkerSignal(r, w)
    \/ CoordRecvDone(r)
    \/ CoordRecvPremature(r)

\* The Go scheduler does not leave an invocation idle while one of its
\* goroutines can run, and Execute terminates; the caller need not call
\* again and no SIGINT need arrive.
Fairness == \A r \in Runs : WF_vars(RunStep(r))

FairSpec == Init /\ [][Next]_vars /\ Fairness

(***************************************************************************)
(* Execute that does not return.  evaluateQueue calls j.Execute() with no  *)
(* recover around it, so what follows depends on how the call ends: a      *)
(* call that blocks for ever, or that ends its goroutine with              *)
(* runtime.Goexit, loses one worker; a panic, which no frame of the        *)
(* goroutine recovers, ends the process.                                   *)
(***************************************************************************)
\* Variant of WorkerFault: a deferred recover in evaluateQueue catches the
\* fault, and the worker goes on to its send on doneChan.
WorkerFaultRecovered(r, w) ==
    /\ wpc[r][w] = "exec"
    /\ wpc' = [wpc EXCEPT ![r][w] = "signal"]
    /\ UNCHANGED <<globalVars, coordVars, prodVars, sigVars, chanVars,
                   spawnIdx, wjob, taskVars, histVars>>

\* j.Execute() never comes back to evaluateQueue (it blocks, or its goroutine
\* exits): the range loop is not resumed and doneChan gets no marker from w.
WorkerFault(r, w) ==
    /\ wpc[r][w] = "exec"
    /\ wpc' = [wpc EXCEPT ![r][w] = "faulted"]
    /\ UNCHANGED <<globalVars, coordVars, prodVars, sigVars, chanVars,
                   spawnIdx, wjob, taskVars, histVars>>

\* j.Execute() panics: evaluateQueue has no recover, the panic unwinds the
\* worker goroutine and the runtime ends the process, RunBlocking and every
\* other goroutine with it.
WorkerPanic(r, w) ==
    /\ wpc[r][w] = "exec"
    /\ wpc' = [wpc EXCEPT ![r] = [v \in Workers |->
                       IF v = w \/ wpc[r][v] = "faulted" THEN "faulted"
                                                         ELSE "crashed"]]
    /\ cpc' = [cpc EXCEPT ![r] = "crashed"]
    /\ ppc' = [ppc EXCEPT ![r] = "crashed"]
    /\ UNCHANGED <<globalVars, jobs, binding, err, totalDone, pidx, sigVars,
                   chanVars, spawnIdx, wjob, taskVars, histVars>>

FaultNext ==
    \/ Next
    \/ \E r \in Runs, w \in Workers : WorkerFault(r, w)
    \/ \E r \in Runs, w \in Workers : WorkerPanic(r, w)

FaultSpec == Init /\ [][FaultNext]_vars

(***************************************************************************)
(* RunBlocking called from two goroutines of the caller, so that the two   *)
(* invocations overlap.  jobsQueue, doneChan and prematureEnd are declared *)
(* with := in RunBlocking, so each invocation works on channels of its own *)
(* and the package variables of the same names are never assigned.         *)
(***************************************************************************)
\* The invocations made by the two goroutines of the caller, and the lengths
\* of the jobs slices they pass: none or one task each.
Overlapping == {1, 2}
OverlapJobs == {0, 1}

\* The process starts as in Init, on a machine of few processors.
OverlapInit ==
    /\ Init
    /\ workersNumber <= MaxOverlapWorkers

\* RunBlocking up to its for loop, called while an earlier invocation may
\* still be running: the locals of the other invocation are left alone.
CallOverlap(r) ==
    /\ r \in Overlapping
    /\ cpc[r] = "idle"
    /\ r > 1 => cpc[r - 1] # "idle"
    /\ \E n \in OverlapJobs, b \in Bindings :
          /\ jobs' = [jobs EXCEPT ![r] = n]
          /\ binding' = [binding EXCEPT ![r] = b]
    /\ cpc' = [cpc EXCEPT ![r] = "loop"]
    /\ err' = [err EXCEPT ![r] = nil]
    /\ totalDone' = [totalDone EXCEPT ![r] = 0]
    /\ jobsQueue' = [jobsQueue EXCEPT ![r] = <<>>]
    /\ closed' = [closed EXCEPT ![r] = 0]
    /\ doneChan' = [doneChan EXCEPT ![r] = 0]
    /\ ppc' = [ppc EXCEPT ![r] = "notify"]
    /\ UNCHANGED <<globalVars, pidx, sigVars, workVars, taskVars, histVars>>

OverlapNext ==
    \/ \E r \in Runs : CallOverlap(r)
    \/ \E r \in Runs : ProducerNotify(r)
    \/ \E r \in Runs : ProducerPoll(r)
    \/ \E r \in Runs : ProducerSend(r)
    \/ \E r \in Runs : ProducerCancelClose(r)
    \/ \E r \in Runs : ProducerClose(r)
    \/ \E r \in Runs : SpawnWorker(r)
    \/ \E r \in Runs, w \in Workers : WorkerRecv(r, w)
    \/ \E r \in Runs, w \in Workers : WorkerExecute(r, w)
    \/ \E r \in Runs, w \in Workers : WorkerObserveClosed(r, w)
    \/ \E r \in Runs, w \in Workers : WorkerSignal(r, w)
    \/ \E r \in Runs : CoordRecvDone(r)
    \/ \E r \in Runs : CoordRecvPremature(r)
    \/ Interrupt

OverlapSpec == OverlapInit /\ [][OverlapNext]_vars

(***************************************************************************)
(* Properties                                                              *)
(***************************************************************************)
Returned(r) == cpc[r] = "returned"
TasksOf(r) == 1..jobs[r]
InSeq(t, q) == \E i \in 1..Len(q) : q[i] = t
WorkersDone(r) == {w \in Workers : wpc[r][w] = "done"}

Holders(r, t) == {w \in Workers : wjob[r][w] = t}
Count(t, q) == Cardinality({i \in 1..Len(q) : q[i] = t})

\* The loop of RunBlocking is left only by the return that follows its break.
LoopEndsInReturn ==
    \A r \in Runs :
        (cpc[r] = "loop" /\ cpc'[r] # "loop") => cpc'[r] = "returned"

\* C1: when RunBlocking returns and populateQueue never read an interrupt from
\* signalChan, the result is nil and Execute was called exactly once on every
\* task of jobs (with pointer tasks the caller already sees done set).
C1_AllExecutedOnce ==
    \A r \in Runs :
        (Returned(r) /\ sentAtCancel[r] = {}) =>
            /\ err[r] = nil
            /\ \A t \in TasksOf(r) :
                  /\ executed[r][t] = 1
                  /\ binding[r] = "pointer" => done[r][t]
            /\ \A t \in Tasks \ TasksOf(r) : executed[r][t] = 0

C1_Witness ==
    \E r \in Runs :
        /\ Returned(r)
        /\ sentAtCancel[r] = {}
        /\ jobs[r] = MaxJobs
        /\ binding[r] = "pointer"
        /\ \A t \in TasksOf(r) : executed[r][t] = 1 /\ done[r][t]

\* C2: RunBlocking has not returned unless each of the workersNumber workers
\* has sent its marker on doneChan and RunBlocking has counted it, also when
\* the marker of prematureEnd was received.
C2_ReturnAfterAllWorkers ==
    \A r \in Runs :
        Returned(r) =>
            /\ WorkersDone(r) = 1..workersNumber
            /\ totalDone[r] = workersNumber
            /\ doneChan[r] = 0

C2_Witness ==
    \E r \in Runs :
        /\ Returned(r)
        /\ emitted[r] = 1
        /\ workersNumber = MaxWorkers
        /\ WorkersDone(r) = 1..workersNumber

\* C3: RunBlocking returns ErrTasksNotCompleted exactly when populateQueue
\* sent a marker on prematureEnd during the run, and nil otherwise.
C3_ErrIffCancelled ==
    \A r \in Runs :
        Returned(r) => (err[r] = ErrTasksNotCompleted <=> emitted[r] > 0)

C3_Witness ==
    \E r \in Runs :
        /\ Returned(r)
        /\ emitted[r] > 0
        /\ err[r] = ErrTasksNotCompleted
        /\ Len(sent[r]) > 0

\* C4, as claimed: a SIGINT delivered to the process when K of the N tasks
\* have been sent, K < N, makes RunBlocking return ErrTasksNotCompleted with
\* exactly the first K tasks executed.
C4_AsClaimed ==
    \A r \in Runs :
        Returned(r) =>
            \A k \in sentAtInterrupt[r] :
                k < jobs[r] =>
                    /\ err[r] = ErrTasksNotCompleted
                    /\ \A t \in 1..k : executed[r][t] = 1
                    /\ \A t \in (k + 1)..jobs[r] : executed[r][t] = 0

\* C4, amended: when populateQueue reads the interrupt from signalChan at a
\* poll made after K of the N tasks were sent, then K < N, none of the tasks
\* K+1..N is ever sent or executed, and when RunBlocking returns it returns
\* ErrTasksNotCompleted with each of the tasks 1..K executed once.
C4_CancelAtPoll ==
    \A r \in Runs :
        \A k \in sentAtCancel[r] :
            /\ k < jobs[r]
            /\ Len(sent[r]) = k
            /\ \A t \in (k + 1)..jobs[r] : executed[r][t] = 0
            /\ Returned(r) =>
                  /\ err[r] = ErrTasksNotCompleted
                  /\ \A t \in 1..k : executed[r][t] = 1

C4_Witness ==
    \E r \in Runs :
        /\ Returned(r)
        /\ sentAtCancel[r] = {1}
        /\ jobs[r] = MaxJobs
        /\ executed[r][1] = 1
        /\ err[r] = ErrTasksNotCompleted

\* C5: with an empty jobs slice populateQueue never reads signalChan and
\* sends nothing, no task is executed, err stays nil whether or not a SIGINT
\* arrives, and under fair scheduling RunBlocking returns (it does not stay
\* in its loop, which it leaves only by returning).
C5_EmptyInv ==
    \A r \in Runs :
        (cpc[r] \in {"loop", "returned"} /\ jobs[r] = 0) =>
            /\ ppc[r] \in {"notify", "close", "done"}
            /\ sentAtCancel[r] = {}
            /\ emitted[r] = 0
            /\ sent[r] = <<>>
            /\ recvd[r] = <<>>
            /\ \A t \in Tasks : executed[r][t] = 0
            /\ err[r] = nil

C6_ErrMeansUnsent ==
    \A r \in Runs :
        Returned(r) =>
            IF err[r] = ErrTasksNotCompleted
               THEN \E t \in TasksOf(r) :
                       /\ ~InSeq(t, sent[r])
                       /\ executed[r][t] = 0
               ELSE \A t \in TasksOf(r) :
                       /\ InSeq(t, recvd[r])
                       /\ executed[r][t] = 1

C6_Witness ==
    \E r \in Runs :
        /\ Returned(r)
        /\ err[r] = ErrTasksNotCompleted
        /\ jobs[r] = MaxJobs
        /\ Len(sent[r]) = MaxJobs - 1
        /\ executed[r][MaxJobs] = 0

\* C7: when RunBlocking returns nil, the field done of every task of the
\* caller is set if the tasks were handed over as pointers and is untouched
\* if they were handed over as values.
C7_ValueCopyUnchanged ==
    \A r \in Runs :
        (Returned(r) /\ err[r] = nil) =>
            \A t \in TasksOf(r) : done[r][t] <=> binding[r] = "pointer"

C7_Witness ==
    \E r \in Runs :
        /\ Returned(r)
        /\ err[r] = nil
        /\ binding[r] = "value"
        /\ jobs[r] = MaxJobs
        /\ \A t \in TasksOf(r) : executed[r][t] = 1 /\ ~done[r][t]

\* C8: an invocation of RunBlocking that follows another one counts only the
\* markers of its own workers, cancels only on an interrupt read by its own
\* populateQueue, and reads only a SIGINT delivered while it runs; if its
\* populateQueue reads none it returns nil with every task executed exactly
\* once, whatever the previous invocation did.
C8_SecondRunIndependent ==
    \A r \in Runs \ {1} :
        cpc[r] \in {"loop", "returned"} =>
            /\ totalDone[r] + doneChan[r] = Cardinality(WorkersDone(r))
            /\ emitted[r] > 0 => sentAtCancel[r] # {}
            /\ sentAtCancel[r] # {} => sentAtInterrupt[r] # {}
            /\ (Returned(r) /\ sentAtCancel[r] = {}) =>
                  /\ err[r] = nil
                  /\ totalDone[r] = workersNumber
                  /\ \A t \in TasksOf(r) : executed[r][t] = 1

C8_Witness ==
    \E r \in Runs \ {1} :
        /\ Returned(r)
        /\ err[r - 1] = ErrTasksNotCompleted
        /\ sentAtInterrupt[r] = {}
        /\ jobs[r] = MaxJobs
        /\ err[r] = nil
        /\ \A t \in TasksOf(r) : executed[r][t] = 1

\* C9: no state of a running invocation is a deadlock (some goroutine of the
\* invocation can take a step), and under fair scheduling every invocation of
\* RunBlocking returns, on the normal and on the cancellation path (it does
\* not stay in its loop, which it leaves only by returning).
C9_NoDeadlock ==
    \A r \in Runs : cpc[r] = "loop" => ENABLED RunStep(r)

C9_Terminates ==
    /\ []C9_NoDeadlock
    /\ [][LoopEndsInReturn]_vars
    /\ []<>(\A r \in Runs : cpc[r] # "loop")

C9_Witness ==
    \E r \in Runs :
        /\ cpc[r] = "loop"
        /\ ppc[r] = "send"
        /\ Len(jobsQueue[r]) = workersNumber
        /\ signalChan[r] = 1
        /\ spawnIdx[r] = 0

\* C10: jobsQueue is closed at most once, only by populateQueue as its last
\* step (after the last send on the normal path, after the marker of
\* prematureEnd on the cancellation path), nothing is sent after the close,
\* and it has been closed once when RunBlocking returns.
C10_ClosedOnce ==
    \A r \in Runs :
        /\ closed[r] <= 1
        /\ closed[r] = 1 <=> ppc[r] = "done"
        /\ closed[r] = 1 =>
              \/ emitted[r] = 0 /\ Len(sent[r]) = jobs[r]
              \/ emitted[r] = 1 /\ Len(sent[r]) < jobs[r]
        /\ Returned(r) => closed[r] = 1

C10_Witness ==
    \E r \in Runs :
        /\ closed[r] = 1
        /\ emitted[r] = 1
        /\ jobsQueue[r] # <<>>
        /\ ppc[r] = "done"

\* C11: parallelizeWorkers starts exactly workersNumber workers; a worker
\* sends its one marker on doneChan only after it found jobsQueue closed and
\* empty, whether it executed tasks or none; the markers sent and totalDone
\* never exceed workersNumber, and doneChan always has room for the marker of
\* a worker that is about to send it.
C11_OneSignalPerWorker ==
    \A r \in Runs :
        /\ spawnIdx[r] <= workersNumber
        /\ \A w \in Workers : wpc[r][w] # "unspawned" <=> w <= spawnIdx[r]
        /\ totalDone[r] + doneChan[r] = Cardinality(WorkersDone(r))
        /\ totalDone[r] + doneChan[r] <= workersNumber
        /\ \A w \in Workers :
              wpc[r][w] \in {"signal", "done"} =>
                  /\ closed[r] > 0
                  /\ jobsQueue[r] = <<>>
                  /\ wjob[r][w] = 0
        /\ \A w \in Workers :
              wpc[r][w] = "signal" => ENABLED WorkerSignal(r, w)
        /\ Returned(r) => spawnIdx[r] = workersNumber

C11_Witness ==
    \E r \in Runs :
        /\ Returned(r)
        /\ workersNumber = MaxWorkers
        /\ jobs[r] = 1
        /\ totalDone[r] = workersNumber
        /\ executed[r][1] = 1

\* C12: a task sent to jobsQueue is received by at most one worker; Execute
\* is called on it at most once, by that worker, which holds no other task
\* until the call is over; a task that was never sent is never received nor
\* executed.
C12_AtMostOnce ==
    \A r \in Runs :
        /\ \A t \in Tasks :
              /\ Count(t, recvd[r]) <= 1
              /\ executed[r][t] <= 1
              /\ Cardinality(Holders(r, t)) + executed[r][t]
                     = Count(t, recvd[r])
              /\ ~InSeq(t, sent[r]) =>
                     /\ ~InSeq(t, recvd[r])
                     /\ executed[r][t] = 0
        /\ \A w \in Workers : wpc[r][w] = "exec" <=> wjob[r][w] # 0

C12_Witness ==
    \E r \in Runs :
        /\ workersNumber > 1
        /\ wpc[r][1] = "exec"
        /\ wpc[r][2] = "exec"
        /\ wjob[r][1] # wjob[r][2]

\* C13: at every moment the tasks sent to jobsQueue are the first tasks of
\* jobs in their order, the tasks received are the first tasks sent in the
\* same order, and the tasks not yet received are in jobsQueue in that order;
\* the order in which Execute ends is free.
C13_InputOrder ==
    \A r \in Runs :
        /\ Len(sent[r]) <= jobs[r]
        /\ \A i \in 1..Len(sent[r]) : sent[r][i] = i
        /\ sent[r] = recvd[r] \o jobsQueue[r]

C13_Witness ==
    \E r \in Runs :
        /\ Len(recvd[r]) = MaxJobs
        /\ executed[r][MaxJobs] = 1
        /\ executed[r][1] = 0
        /\ \E w \in Workers : wjob[r][w] = 1

\* C14: jobsQueue never holds more than workersNumber tasks; populateQueue
\* cannot send while it holds workersNumber tasks, and a worker at the head
\* of its range loop cannot go on while it is empty and not closed.
C14_QueueBounded ==
    \A r \in Runs :
        /\ Len(jobsQueue[r]) <= workersNumber
        /\ (ppc[r] = "send" /\ Len(jobsQueue[r]) = workersNumber) =>
              ~ENABLED ProducerSend(r)
        /\ (ppc[r] = "send" /\ Len(jobsQueue[r]) < workersNumber) =>
              ENABLED ProducerSend(r)
        /\ \A w \in Workers :
              (wpc[r][w] = "recv" /\ jobsQueue[r] = <<>> /\ closed[r] = 0) =>
                  ~ENABLED (WorkerRecv(r, w) \/ WorkerObserveClosed(r, w))

C14_Witness ==
    \E r \in Runs :
        /\ ppc[r] = "send"
        /\ Len(jobsQueue[r]) = workersNumber
        /\ wpc[r][1] = "recv"
        /\ ~ENABLED ProducerSend(r)

\* C15: once populateQueue has read the interrupt at the poll before task
\* k+1, it only sends the marker of prematureEnd and closes jobsQueue: task
\* k+1 and the later ones are never sent nor executed; each of the k tasks
\* sent before is in jobsQueue, held by a worker or executed, and all of
\* them are executed when RunBlocking returns.
C15_CancelKeepsSent ==
    \A r \in Runs :
        \A k \in sentAtCancel[r] :
            /\ ppc[r] \in {"cancelSend", "cancelClose", "done"}
            /\ pidx[r] = k + 1
            /\ Len(sent[r]) = k
            /\ \A t \in Tasks :
                  t > k => ~InSeq(t, sent[r]) /\ executed[r][t] = 0
            /\ ppc[r] = "done" => emitted[r] = 1 /\ closed[r] = 1
            /\ \A t \in 1..k :
                  \/ InSeq(t, jobsQueue[r])
                  \/ Holders(r, t) # {}
                  \/ executed[r][t] = 1
            /\ Returned(r) => \A t \in 1..k : executed[r][t] = 1

C15_Witness ==
    \E r \in Runs, w \in Workers :
        /\ sentAtCancel[r] = {1}
        /\ ppc[r] = "done"
        /\ closed[r] = 1
        /\ wpc[r][w] = "exec"
        /\ wjob[r][w] = 1

\* C16: populateQueue sends at most one marker on prematureEnd, and only
\* after it read an interrupt while some task was still unsent; once every
\* task is sent it reads signalChan no more and sends no marker, so a SIGINT
\* buffered after its last poll stays unread and RunBlocking returns nil.
C16_CancelOnlyBeforeLastSend ==
    \A r \in Runs :
        /\ emitted[r] <= 1
        /\ emitted[r] = 1 =>
              /\ sentAtCancel[r] # {}
              /\ Len(sent[r]) < jobs[r]
        /\ (cpc[r] \in {"loop", "returned"} /\ ppc[r] # "notify"
                /\ Len(sent[r]) = jobs[r]) =>
              /\ ppc[r] \in {"close", "done"}
              /\ sentAtCancel[r] = {}
              /\ emitted[r] = 0
              /\ err[r] = nil

C16_Witness ==
    \E r \in Runs :
        /\ Returned(r)
        /\ jobs[r] = MaxJobs
        /\ Len(sent[r]) = MaxJobs
        /\ signalChan[r] = 1
        /\ emitted[r] = 0
        /\ err[r] = nil

\* C17 as stated: whenever an Execute has not returned to its worker, the
\* coordinator is in the loop of RunBlocking, waiting on doneChan.
C17_AsClaimed ==
    \A r \in Runs :
        (\E w \in Workers : wpc[r][w] = "faulted") => cpc[r] = "loop"

\* The workers whose own call of Execute did not return (a worker that the
\* panic of another one ended with the process is not one of them).
Faulted(r) ==
    {w \in Workers : wjob[r][w] # 0 /\ wpc[r][w] \notin {"exec", "crashed"}}

\* C17: an Execute that does not return is not caught by evaluateQueue: its
\* worker stays where it is and sends no marker on doneChan, so totalDone
\* never reaches workersNumber and RunBlocking never returns; RunBlocking is
\* either still in its loop or, after a panic, gone with the process.
C17_FaultInv ==
    \A r \in Runs :
        Faulted(r) # {} =>
            /\ cpc[r] \in {"loop", "crashed"}
            /\ totalDone[r] + doneChan[r] + Cardinality(Faulted(r))
                  <= workersNumber
            /\ totalDone[r] < workersNumber
            /\ \A w \in Faulted(r) : wpc[r][w] = "faulted"
            /\ \A w \in Faulted(r) : executed[r][wjob[r][w]] = 0

C17_Stays ==
    \A r \in Runs : Faulted(r) \subseteq Faulted(r)'

C17_FaultNeverReturns == [](C17_FaultInv) /\ [][C17_Stays]_vars

C17_Witness ==
    \E r \in Runs :
        /\ workersNumber = MaxWorkers
        /\ wpc[r][1] = "faulted"
        /\ \A w \in Workers : w # 1 => wpc[r][w] = "done"
        /\ ppc[r] = "done"
        /\ doneChan[r] = 0
        /\ totalDone[r] = workersNumber - 1
        /\ cpc[r] = "loop"
        /\ ~ENABLED RunStep(r)

\* C18: when RunBlocking has returned, jobsQueue is closed and empty, every
\* worker goroutine has been started and has ended holding no task, and
\* populateQueue has returned; while populateQueue is at its send on
\* prematureEnd, RunBlocking is still in its loop, jobsQueue is open and no
\* worker has left its range loop, so the send always finds its receiver.
C18_QuiescentAtReturn ==
    \A r \in Runs :
        /\ Returned(r) =>
              /\ closed[r] = 1
              /\ jobsQueue[r] = <<>>
              /\ spawnIdx[r] = workersNumber
              /\ \A w \in 1..workersNumber :
                    wpc[r][w] = "done" /\ wjob[r][w] = 0
              /\ ppc[r] = "done"
              /\ doneChan[r] = 0
        /\ ppc[r] = "cancelSend" =>
              /\ cpc[r] = "loop"
              /\ closed[r] = 0
              /\ totalDone[r] = 0 /\ doneChan[r] = 0
              /\ \A w \in Workers : wpc[r][w] \in {"unspawned", "recv", "exec"}
              /\ ENABLED CoordRecvPremature(r)
        /\ closed[r] > 0 /\ sentAtCancel[r] # {} => emitted[r] = 1

C18_Witness ==
    \E r \in Runs :
        /\ Returned(r)
        /\ err[r] = ErrTasksNotCompleted
        /\ sentAtCancel[r] = {1}
        /\ executed[r][1] = 1
        /\ ppc[r] = "done"
        /\ closed[r] = 1
        /\ jobsQueue[r] = <<>>

\* C19: from the moment a SIGINT is buffered in the signalChan of a run,
\* populateQueue sends at most one more task, the one whose select had
\* already taken default; with that send still to come it is at the send,
\* and otherwise it has read the signal by the time it is past its next poll.
C19_AtMostOneMoreSend ==
    \A r \in Runs :
        \A k \in sentAtPending[r] :
            /\ Len(sent[r]) <= k + 1
            /\ Len(sent[r]) = k + 1 =>
                  \/ ppc[r] \in {"poll", "close", "done"} /\ sentAtCancel[r] = {}
                  \/ ppc[r] \in {"cancelSend", "cancelClose", "done"}
                        /\ sentAtCancel[r] = {k + 1}
            /\ (Len(sent[r]) = k /\ ppc[r] \in {"cancelSend", "cancelClose"})
                  => sentAtCancel[r] = {k}
            /\ (ppc[r] = "send" /\ signalChan[r] = 1) => Len(sent[r]) = k

C19_Witness ==
    \E r \in Runs :
        /\ jobs[r] = MaxJobs
        /\ sentAtPending[r] = {0}
        /\ sent[r] = <<1>>
        /\ sentAtCancel[r] = {1}
        /\ ppc[r] = "done"

\* C20: with two invocations of RunBlocking running at the same time, each
\* works on its own jobsQueue, doneChan and prematureEnd: the tasks a run
\* received or holds are the tasks it sent, a task is executed at most once
\* and only after a worker of its run received it, the markers a run counted
\* or holds in its doneChan are those of its own workers that have ended, and
\* a run has returned only when every task it sent has been executed.
C20_NoInterference ==
    \A r \in Runs :
        /\ sent[r] = recvd[r] \o jobsQueue[r]
        /\ Len(sent[r]) <= jobs[r]
        /\ \A i \in 1..Len(sent[r]) : sent[r][i] = i
        /\ \A t \in Tasks :
              /\ executed[r][t] <= 1
              /\ executed[r][t] + Cardinality(Holders(r, t))
                    = Count(t, recvd[r])
        /\ totalDone[r] + doneChan[r] = Cardinality(WorkersDone(r))
        /\ (err[r] = nil) = (emitted[r] = 0)
        /\ Returned(r) =>
              /\ WorkersDone(r) = 1..workersNumber
              /\ \A t \in 1..Len(sent[r]) : executed[r][t] = 1

C20_Witness ==
    /\ cpc[1] = "loop"
    /\ \E w \in Workers : wpc[1][w] = "exec" /\ wjob[1][w] = 1
    /\ Returned(2)
    /\ executed[2][1] = 1
    /\ executed[1][1] = 0

====
